---------------------------- MODULE Spec2Model ----------------------------
(***************************************************************************)
(* Room session state machine of the rooms-backend WebSocket server        *)
(* (src/server.js): the registry `rooms`, the per-connection fields        *)
(* ws.room / ws.id, and one action per message handler and for the close   *)
(* handler.  Every handler runs to completion (single-threaded event loop) *)
(* and is therefore one atomic action.                                     *)
(*                                                                         *)
(* Identifiers.  ws.id is the connection's index (genId is unique per      *)
(* connection).  The ids genId gives to deck entries are opaque tokens     *)
(* unique within a deck; the k-th entry built gets the token 10 + k.      *)
(* JavaScript null is NULL, the owner "AI" is AI.                          *)
(***************************************************************************)
EXTENDS Integers, Sequences, FiniteSets, TLC

\* ---------------------------------------------------------------- bounds
MaxConns == 2
MaxRooms == 2
MaxRoomConns == 1
MaxScore == 2

\* ------------------------------------------------------------- constants
NULL == 0
AI == -1

AllConns == 1..(MaxConns + 1)
Conns == 1..MaxConns
Codes == 1..MaxRooms

\* texts a submit_answer may carry, and String(..).trim() on them
Texts == {"", " ", "red", " blue "}
Trim(t) == CASE t = " " -> ""
             [] t = " blue " -> "blue"
             [] OTHER -> t

AI_TEXT == "LOREM IPSUM (fake AI answer)"

\* token of the k-th deck entry built in a round
genId(k) == 10 + k
\* answerId values a submit_vote may carry: 0 is a missing or blank id,
\* genId(MaxConns + 3) is a token of no deck
AnswerIds == {0} \cup {genId(k) : k \in 1..(MaxConns + 3)}

VARIABLES rooms, ws
vars == <<rooms, ws>>

\* ------------------------------------------------------------- helpers
Range(f) == {f[x] : x \in DOMAIN f}
Ids(clients) == Range(clients)
Without(f, k) == [x \in DOMAIN f \ {k} |-> f[x]]
RemoveClient(clients, id) == SelectSeq(clients, LAMBDA x : x # id)
AddClient(clients, id) == IF id \in Ids(clients) THEN clients ELSE Append(clients, id)

RECURSIVE SetToSeq(_)
SetToSeq(S) == IF S = {} THEN <<>>
               ELSE LET x == CHOOSE y \in S : \A z \in S : y <= z
                    IN <<x>> \o SetToSeq(S \ {x})

\* rooms[code] as getRoom creates it
NewRoom == [clients |-> <<>>, locked |-> FALSE, hostId |-> NULL,
            phase |-> "lobby",
            answers |-> <<>>, shuffled |-> <<>>, revealCount |-> 0,
            votes |-> <<>>, tallies |-> <<>>,
            scores |-> <<>>,
            resultsRevealCount |-> 0]

getRoom(rs, code) == IF code \in DOMAIN rs THEN rs ELSE rs @@ (code :> NewRoom)

\* mutant: a missing entry is not created
ensureScore_createsNothing(scores, ownerId) == scores

ensureScore(scores, ownerId) ==
    IF ownerId \in DOMAIN scores THEN scores ELSE scores @@ (ownerId :> 0)

RECURSIVE ensureScores(_, _)
ensureScores(scores, ids) ==
    IF ids = <<>> THEN scores
    ELSE ensureScores(ensureScore(scores, Head(ids)), Tail(ids))

\* the loop of computeTallies over room.votes.values()
RECURSIVE tallyLoop(_, _, _)
tallyLoop(votes, voters, t) ==
    IF voters = <<>> THEN t
    ELSE LET answerId == votes[Head(voters)]
             old == IF answerId \in DOMAIN t THEN t[answerId] ELSE 0
             t2 == IF answerId \in DOMAIN t
                   THEN [t EXCEPT ![answerId] = old + 1]
                   ELSE t @@ (answerId :> old + 1)
         IN tallyLoop(votes, Tail(voters), t2)

computeTallies(room) ==
    [room EXCEPT !.tallies = tallyLoop(room.votes, SetToSeq(DOMAIN room.votes), <<>>)]

find(shuffled, answerId) ==
    LET hits == {i \in 1..Len(shuffled) : shuffled[i].id = answerId}
    IN IF hits = {} THEN 0 ELSE CHOOSE i \in hits : \A j \in hits : i <= j

\* mutant: the owner's +1 is given to human owners only
scoreVote_humanOwnersOnly(scores, shuffled, voterId, answerId) ==
    LET k == find(shuffled, answerId)
    IN IF k = 0 THEN scores
       ELSE LET ownerId == shuffled[k].ownerId
                s1 == ensureScore(ensureScore(scores, voterId), ownerId)
                s2 == IF ownerId = AI
                      THEN [s1 EXCEPT ![voterId] = @ + 1]
                      ELSE [s1 EXCEPT ![voterId] = @ - 1]
            IN IF ownerId = AI THEN s2 ELSE [s2 EXCEPT ![ownerId] = @ + 1]

\* mutant: a vote for a human's entry costs the voter nothing
scoreVote_noPenalty(scores, shuffled, voterId, answerId) ==
    LET k == find(shuffled, answerId)
    IN IF k = 0 THEN scores
       ELSE LET ownerId == shuffled[k].ownerId
                s1 == ensureScore(ensureScore(scores, voterId), ownerId)
                s2 == IF ownerId = AI
                      THEN [s1 EXCEPT ![voterId] = @ + 1]
                      ELSE s1
            IN [s2 EXCEPT ![ownerId] = @ + 1]

\* one iteration of the loop of applyScoring
scoreVote(scores, shuffled, voterId, answerId) ==
    LET k == find(shuffled, answerId)
    IN IF k = 0 THEN scores
       ELSE LET ownerId == shuffled[k].ownerId
                s1 == ensureScore(ensureScore(scores, voterId), ownerId)
                s2 == IF ownerId = AI
                      THEN [s1 EXCEPT ![voterId] = @ + 1]
                      ELSE [s1 EXCEPT ![voterId] = @ - 1]
            IN [s2 EXCEPT ![ownerId] = @ + 1]

RECURSIVE scoringLoop(_, _, _, _)
scoringLoop(scores, shuffled, votes, voters) ==
    IF voters = <<>> THEN scores
    ELSE scoringLoop(scoreVote(scores, shuffled, Head(voters), votes[Head(voters)]),
                     shuffled, votes, Tail(voters))

applyScoring(room) ==
    [room EXCEPT !.scores =
        scoringLoop(room.scores, room.shuffled, room.votes, SetToSeq(DOMAIN room.votes))]

\* ------------------------------------------------------------- the view
\* The nickname a connection sends with join; every connection keeps to one
\* nickname, so the nickname stored with a submission and with its deck entry
\* is the nickname of the entry's owner. The AI entry's nickname is "AI".
Nicknames == <<"Ann", "Bo", "Cy">>
nicknameOf(ownerId) == IF ownerId = AI THEN "AI" ELSE Nicknames[ownerId]

\* list.sort((a, b) => b.score - a.score): stable, by score, highest first
RECURSIVE sortByScore(_)
sortByScore(list) ==
    IF list = <<>> THEN <<>>
    ELSE LET n == Len(list)
             x == list[n]
             front == sortByScore(SubSeq(list, 1, n - 1))
             before == SelectSeq(front, LAMBDA y : y.score >= x.score)
             after == SelectSeq(front, LAMBDA y : y.score < x.score)
         IN before \o <<x>> \o after

\* the list buildScoresPayload returns (its ensureScore calls are broadcastRoom's)
buildScoresPayload(room) ==
    LET scores == ensureScore(ensureScores(room.scores, room.clients), AI)
        players == [i \in 1..Len(room.clients) |->
                      [id |-> room.clients[i], name |-> nicknameOf(room.clients[i]),
                       score |-> scores[room.clients[i]]]]
    IN sortByScore(Append(players, [id |-> AI, name |-> "AI", score |-> scores[AI]]))

\* mutant: the results are not gated by resultsRevealCount
buildSharedState_allResults(room) ==
    LET slice(n) == SubSeq(room.shuffled, 1, IF n < Len(room.shuffled) THEN n ELSE Len(room.shuffled))
        shown == slice(room.revealCount)
        revealed == room.shuffled
    IN [users |-> [i \in 1..Len(room.clients) |-> nicknameOf(room.clients[i])],
        locked |-> room.locked, hostId |-> room.hostId, phase |-> room.phase,
        submittedCount |-> Cardinality(DOMAIN room.answers),
        totalPlayers |-> Len(room.clients),
        revealCount |-> room.revealCount,
        totalAnswers |-> Len(room.shuffled),
        revealedAnswers |-> IF room.phase = "reveal"
                            THEN [i \in 1..Len(shown) |-> [text |-> shown[i].answer]]
                            ELSE <<>>,
        voteOptions |-> IF room.phase \in {"voting", "results"}
                        THEN [i \in 1..Len(room.shuffled) |->
                                [id |-> room.shuffled[i].id, text |-> room.shuffled[i].answer]]
                        ELSE <<>>,
        totalVotes |-> Cardinality(DOMAIN room.votes),
        resultsRevealCount |-> room.resultsRevealCount,
        revealedResults |-> IF room.phase = "results"
                            THEN [i \in 1..Len(revealed) |->
                                    [id |-> revealed[i].id, text |-> revealed[i].answer,
                                     votes |-> IF revealed[i].id \in DOMAIN room.tallies
                                               THEN room.tallies[revealed[i].id] ELSE 0,
                                     author |-> nicknameOf(revealed[i].ownerId),
                                     isAI |-> revealed[i].ownerId = AI]]
                            ELSE <<>>,
        scores |-> buildScoresPayload(room)]

\* the room_update message without its constant type and the room code
buildSharedState(room) ==
    LET slice(n) == SubSeq(room.shuffled, 1, IF n < Len(room.shuffled) THEN n ELSE Len(room.shuffled))
        shown == slice(room.revealCount)
        revealed == slice(room.resultsRevealCount)
    IN [users |-> [i \in 1..Len(room.clients) |-> nicknameOf(room.clients[i])],
        locked |-> room.locked, hostId |-> room.hostId, phase |-> room.phase,
        submittedCount |-> Cardinality(DOMAIN room.answers),
        totalPlayers |-> Len(room.clients),
        revealCount |-> room.revealCount,
        totalAnswers |-> Len(room.shuffled),
        revealedAnswers |-> IF room.phase = "reveal"
                            THEN [i \in 1..Len(shown) |-> [text |-> shown[i].answer]]
                            ELSE <<>>,
        voteOptions |-> IF room.phase \in {"voting", "results"}
                        THEN [i \in 1..Len(room.shuffled) |->
                                [id |-> room.shuffled[i].id, text |-> room.shuffled[i].answer]]
                        ELSE <<>>,
        totalVotes |-> Cardinality(DOMAIN room.votes),
        resultsRevealCount |-> room.resultsRevealCount,
        revealedResults |-> IF room.phase = "results"
                            THEN [i \in 1..Len(revealed) |->
                                    [id |-> revealed[i].id, text |-> revealed[i].answer,
                                     votes |-> IF revealed[i].id \in DOMAIN room.tallies
                                               THEN room.tallies[revealed[i].id] ELSE 0,
                                     author |-> nicknameOf(revealed[i].ownerId),
                                     isAI |-> revealed[i].ownerId = AI]]
                            ELSE <<>>,
        scores |-> buildScoresPayload(room)]

\* the message broadcastRoom sends to the participant id: lines 180-185
snapshot(room, id) ==
    [shared |-> buildSharedState(room),
     youSubmitted |-> id \in DOMAIN room.answers,
     youVoted |-> id \in DOMAIN room.votes,
     yourVote |-> IF id \in DOMAIN room.votes THEN room.votes[id] ELSE NULL]

\* the only state change of broadcastRoom: buildScoresPayload's ensureScore calls
broadcastRoom(room) ==
    [room EXCEPT !.scores = ensureScore(ensureScores(room.scores, room.clients), AI)]

\* mutant: the host is never reassigned
maybeAssignNewHost_keepsHost(room) == room

\* mutant: the last participant to join becomes host
maybeAssignNewHost_picksLatest(room) ==
    LET hostStillHere == room.hostId \in Ids(room.clients)
    IN IF room.hostId # NULL /\ hostStillHere THEN room
       ELSE [room EXCEPT !.hostId = IF room.clients # <<>>
                                    THEN room.clients[Len(room.clients)] ELSE NULL]

maybeAssignNewHost(room) ==
    LET hostStillHere == room.hostId \in Ids(room.clients)
    IN IF room.hostId # NULL /\ hostStillHere THEN room
       ELSE [room EXCEPT !.hostId = IF room.clients # <<>> THEN room.clients[1] ELSE NULL]

resetRound(room) ==
    [room EXCEPT !.answers = <<>>, !.shuffled = <<>>, !.revealCount = 0,
                 !.votes = <<>>, !.tallies = <<>>, !.resultsRevealCount = 0]


\* ------------------------------------------------------------- handlers
\* Each handler is the new value of rooms[ws.room] (for join: of the registry)
\* after the whole handler has run, sends and broadcasts included.

\* "join" past the locked check: lines 233-247
join(room, id) ==
    LET r1 == [room EXCEPT !.clients = AddClient(@, id)]
        r2 == [r1 EXCEPT !.hostId = IF @ = NULL THEN id ELSE @]
        r3 == [r2 EXCEPT !.scores = ensureScore(ensureScore(@, id), AI)]
    IN broadcastRoom(r3)

\* mutant: the host check is missing
start_game_anyone(room, id) ==
    broadcastRoom(resetRound([room EXCEPT !.locked = TRUE, !.phase = "answering"]))

start_game(room, id) ==
    IF id # room.hostId THEN room
    ELSE broadcastRoom(resetRound([room EXCEPT !.locked = TRUE, !.phase = "answering"]))

\* mutant: the AI entry is not pushed
buildDeck_withoutAI(answers) ==
    LET owners == SetToSeq(DOMAIN answers)
    IN [k \in 1..Len(owners) |->
          [id |-> genId(k), ownerId |-> owners[k], answer |-> answers[owners[k]]]]

\* the deck built when the answering phase closes, before the shuffle
buildDeck(answers) ==
    LET owners == SetToSeq(DOMAIN answers)
        n == Len(owners)
    IN [k \in 1..(n + 1) |->
          IF k <= n THEN [id |-> genId(k), ownerId |-> owners[k], answer |-> answers[owners[k]]]
                    ELSE [id |-> genId(k), ownerId |-> AI, answer |-> AI_TEXT]]

\* shuffleInPlace with the permutation p its random draws produce
shuffleInPlace(arr, p) == [i \in 1..Len(arr) |-> arr[p[i]]]

\* the permutations shuffleInPlace can produce on n entries
Shuffles(n) == {p \in [1..n -> 1..n] : \A i, j \in 1..n : p[i] = p[j] => i = j}

submit_answer(room, id, text, p) ==
    IF ~room.locked \/ room.phase # "answering" THEN room
    ELSE LET answer == Trim(text)
         IN IF answer = "" THEN room
            ELSE IF id \in DOMAIN room.answers THEN room
            ELSE LET r1 == broadcastRoom([room EXCEPT !.answers = @ @@ (id :> answer)])
                     totalPlayers == Len(r1.clients)
                     submitted == Cardinality(DOMAIN r1.answers)
                 IN IF totalPlayers > 0 /\ submitted >= totalPlayers
                    THEN broadcastRoom([r1 EXCEPT
                             !.shuffled = shuffleInPlace(buildDeck(r1.answers), p),
                             !.phase = "reveal",
                             !.revealCount = 0])
                    ELSE r1

\* mutant: the transition to voting zeroes revealCount instead of resultsRevealCount
next_answer_resetsRevealCount(room, id) ==
    IF room.phase # "reveal" THEN room
    ELSE IF id # room.hostId THEN room
    ELSE IF room.revealCount < Len(room.shuffled)
         THEN LET r1 == [room EXCEPT !.revealCount = @ + 1]
                  r2 == IF r1.revealCount >= Len(r1.shuffled)
                        THEN [r1 EXCEPT !.phase = "voting", !.votes = <<>>,
                                        !.tallies = <<>>, !.revealCount = 0]
                        ELSE r1
              IN broadcastRoom(r2)
         ELSE room

\* mutant: voting starts one entry early
next_answer_startsVotingEarly(room, id) ==
    IF room.phase # "reveal" THEN room
    ELSE IF id # room.hostId THEN room
    ELSE IF room.revealCount < Len(room.shuffled)
         THEN LET r1 == [room EXCEPT !.revealCount = @ + 1]
                  r2 == IF r1.revealCount + 1 >= Len(r1.shuffled)
                        THEN [r1 EXCEPT !.phase = "voting", !.votes = <<>>,
                                        !.tallies = <<>>, !.resultsRevealCount = 0]
                        ELSE r1
              IN broadcastRoom(r2)
         ELSE room

next_answer(room, id) ==
    IF room.phase # "reveal" THEN room
    ELSE IF id # room.hostId THEN room
    ELSE IF room.revealCount < Len(room.shuffled)
         THEN LET r1 == [room EXCEPT !.revealCount = @ + 1]
                  r2 == IF r1.revealCount >= Len(r1.shuffled)
                        THEN [r1 EXCEPT !.phase = "voting", !.votes = <<>>,
                                        !.tallies = <<>>, !.resultsRevealCount = 0]
                        ELSE r1
              IN broadcastRoom(r2)
         ELSE room

\* the closure of voting: lines 381-385 and 467-470
closeVoting(room) ==
    [applyScoring(computeTallies(room)) EXCEPT !.phase = "results", !.resultsRevealCount = 0]

\* mutant: the own-answer check is missing
submit_vote_selfAllowed(room, id, answerId) ==
    IF room.phase # "voting" THEN room
    ELSE IF id \in DOMAIN room.votes THEN room
    ELSE IF answerId = 0 THEN room
    ELSE LET k == find(room.shuffled, answerId)
         IN IF k = 0 THEN room
            ELSE LET r1 == broadcastRoom([room EXCEPT !.votes = @ @@ (id :> answerId)])
                     totalPlayers == Len(r1.clients)
                     votes == Cardinality(DOMAIN r1.votes)
                 IN IF totalPlayers > 0 /\ votes >= totalPlayers
                    THEN broadcastRoom(closeVoting(r1))
                    ELSE r1

\* mutant: the already-voted check is missing, a repeated vote overwrites
submit_vote_overwrites(room, id, answerId) ==
    IF room.phase # "voting" THEN room
    ELSE IF answerId = 0 THEN room
    ELSE LET k == find(room.shuffled, answerId)
         IN IF k = 0 THEN room
            ELSE IF room.shuffled[k].ownerId = id THEN room
            ELSE LET r1 == broadcastRoom([room EXCEPT !.votes =
                               IF id \in DOMAIN @ THEN [@ EXCEPT ![id] = answerId]
                                                  ELSE @ @@ (id :> answerId)])
                     totalPlayers == Len(r1.clients)
                     votes == Cardinality(DOMAIN r1.votes)
                 IN IF totalPlayers > 0 /\ votes >= totalPlayers
                    THEN broadcastRoom(closeVoting(r1))
                    ELSE r1

\* mutant: an answerId that is not in the deck is recorded
submit_vote_unknownId(room, id, answerId) ==
    IF room.phase # "voting" THEN room
    ELSE IF id \in DOMAIN room.votes THEN room
    ELSE IF answerId = 0 THEN room
    ELSE LET k == find(room.shuffled, answerId)
         IN IF k # 0 /\ room.shuffled[k].ownerId = id THEN room
            ELSE LET r1 == broadcastRoom([room EXCEPT !.votes = @ @@ (id :> answerId)])
                     totalPlayers == Len(r1.clients)
                     votes == Cardinality(DOMAIN r1.votes)
                 IN IF totalPlayers > 0 /\ votes >= totalPlayers
                    THEN broadcastRoom(closeVoting(r1))
                    ELSE r1

submit_vote(room, id, answerId) ==
    IF room.phase # "voting" THEN room
    ELSE IF id \in DOMAIN room.votes THEN room
    ELSE IF answerId = 0 THEN room
    ELSE LET k == find(room.shuffled, answerId)
         IN IF k = 0 THEN room
            ELSE IF room.shuffled[k].ownerId = id THEN room
            ELSE LET r1 == broadcastRoom([room EXCEPT !.votes = @ @@ (id :> answerId)])
                     totalPlayers == Len(r1.clients)
                     votes == Cardinality(DOMAIN r1.votes)
                 IN IF totalPlayers > 0 /\ votes >= totalPlayers
                    THEN broadcastRoom(closeVoting(r1))
                    ELSE r1

\* mutant: the bound check is missing
next_result_unbounded(room, id) ==
    IF room.phase # "results" THEN room
    ELSE IF id # room.hostId THEN room
    ELSE broadcastRoom([room EXCEPT !.resultsRevealCount = @ + 1])

next_result(room, id) ==
    IF room.phase # "results" THEN room
    ELSE IF id # room.hostId THEN room
    ELSE IF room.resultsRevealCount < Len(room.shuffled)
         THEN broadcastRoom([room EXCEPT !.resultsRevealCount = @ + 1])
         ELSE room

\* mutant: the ledger is cleared with the round data
new_round_clearsScores(room, id) ==
    IF id # room.hostId THEN room
    ELSE broadcastRoom(resetRound([room EXCEPT !.phase = "answering", !.scores = <<>>]))

new_round(room, id) ==
    IF id # room.hostId THEN room
    ELSE broadcastRoom(resetRound([room EXCEPT !.phase = "answering"]))

\* mutant: the ledger is not cleared
reset_game_keepsScores(room, id) ==
    IF id # room.hostId THEN room
    ELSE broadcastRoom(resetRound([room EXCEPT !.locked = FALSE, !.phase = "lobby"]))

reset_game(room, id) ==
    IF id # room.hostId THEN room
    ELSE LET r1 == resetRound([room EXCEPT !.locked = FALSE, !.phase = "lobby"])
             r2 == [r1 EXCEPT !.scores = ensureScore(ensureScores(<<>>, r1.clients), AI)]
         IN broadcastRoom(r2)

\* mutant: the leaver's ledger entry is deleted with the answer and the vote
leave_forgetsScore(room, id) ==
    maybeAssignNewHost([room EXCEPT !.clients = RemoveClient(@, id),
                                    !.answers = IF id \in DOMAIN @ THEN Without(@, id) ELSE @,
                                    !.votes = IF id \in DOMAIN @ THEN Without(@, id) ELSE @,
                                    !.scores = IF id \in DOMAIN @ THEN Without(@, id) ELSE @])

\* the close handler on a room that exists, up to the emptiness test: lines 451-457
leave(room, id) ==
    maybeAssignNewHost([room EXCEPT !.clients = RemoveClient(@, id),
                                    !.answers = IF id \in DOMAIN @ THEN Without(@, id) ELSE @,
                                    !.votes = IF id \in DOMAIN @ THEN Without(@, id) ELSE @])

\* mutant: a disconnect never completes voting
afterLeave_noCompletion(room) == broadcastRoom(room)

\* mutant: the completion test does not look at the phase
afterLeave_anyPhase(room) ==
    LET totalPlayers == Len(room.clients)
        votes == Cardinality(DOMAIN room.votes)
        r1 == IF totalPlayers > 0 /\ votes >= totalPlayers
              THEN closeVoting(room)
              ELSE room
    IN broadcastRoom(r1)

\* the close handler on a room that stays: lines 462-473
afterLeave(room) ==
    LET totalPlayers == Len(room.clients)
        votes == Cardinality(DOMAIN room.votes)
        r1 == IF room.phase = "voting" /\ totalPlayers > 0 /\ votes >= totalPlayers
              THEN closeVoting(room)
              ELSE room
    IN broadcastRoom(r1)

close(rs, code, id) ==
    LET room == leave(rs[code], id)
    IN IF Len(room.clients) = 0
       THEN [c \in DOMAIN rs \ {code} |-> rs[c]]
       ELSE [rs EXCEPT ![code] = afterLeave(room)]

\* ------------------------------------------------------------- actions
\* the ledgers stay within -S..S (the scores are unbounded in the program)
ScoresWithin(rs, S) ==
    \A code \in DOMAIN rs : \A o \in DOMAIN rs[code].scores :
        rs[code].scores[o] \in (-S)..S

\* line 251: a non-join message of a connection with no room is dropped
HasRoom(c) == ws[c].room # NULL /\ ws[c].room \in DOMAIN rooms

Init ==
    /\ rooms = <<>>
    /\ ws = [c \in AllConns |-> [room |-> NULL, open |-> TRUE]]

\* mutant: the locked check is missing
Join_ignoresLock(c, code) ==
    /\ ws[c].open
    /\ rooms' = [getRoom(rooms, code) EXCEPT ![code] = join(@, c)]
    /\ ws' = [ws EXCEPT ![c].room = code]

\* A rejected join changes nothing: ws.close() only schedules the close event,
\* which Close takes at any later time.
Join(c, code) ==
    /\ ws[c].open
    /\ LET rs == getRoom(rooms, code)
       IN IF rs[code].locked
          THEN UNCHANGED vars
          ELSE /\ rooms' = [rs EXCEPT ![code] = join(@, c)]
               /\ ws' = [ws EXCEPT ![c].room = code]

Handle(c, room2) ==
    /\ rooms' = [rooms EXCEPT ![ws[c].room] = room2]
    /\ UNCHANGED ws

StartGame(c) ==
    /\ ws[c].open /\ HasRoom(c)
    /\ Handle(c, start_game(rooms[ws[c].room], c))

\* the draws of shuffleInPlace matter only when this message closes the phase
Draws(room, id, text) ==
    LET n == Cardinality(DOMAIN room.answers \cup {id}) + 1
        identity == [i \in 1..n |-> i]
    IN IF submit_answer(room, id, text, identity).phase = room.phase
       THEN {identity}
       ELSE Shuffles(n)

SubmitAnswer(c, text) ==
    /\ ws[c].open /\ HasRoom(c)
    /\ \E p \in Draws(rooms[ws[c].room], c, text) :
          Handle(c, submit_answer(rooms[ws[c].room], c, text, p))

NextAnswer(c) ==
    /\ ws[c].open /\ HasRoom(c)
    /\ Handle(c, next_answer(rooms[ws[c].room], c))

\* scoring is applied only while the ledger stays within -S..S
SubmitVote(c, answerId, S) ==
    /\ ws[c].open /\ HasRoom(c)
    /\ Handle(c, submit_vote(rooms[ws[c].room], c, answerId))
    /\ ScoresWithin(rooms', S)

NextResult(c) ==
    /\ ws[c].open /\ HasRoom(c)
    /\ Handle(c, next_result(rooms[ws[c].room], c))

NewRound(c) ==
    /\ ws[c].open /\ HasRoom(c)
    /\ Handle(c, new_round(rooms[ws[c].room], c))

ResetGame(c) ==
    /\ ws[c].open /\ HasRoom(c)
    /\ Handle(c, reset_game(rooms[ws[c].room], c))

\* No event follows the close event, so the fields of a closed connection are
\* never read again: they are cleared.
Close(c, S) ==
    /\ ws[c].open
    /\ ws' = [ws EXCEPT ![c] = [room |-> NULL, open |-> FALSE]]
    /\ IF HasRoom(c)
       THEN rooms' = close(rooms, ws[c].room, c) /\ ScoresWithin(rooms', S)
       ELSE UNCHANGED rooms

\* the steps of the connections C joining rooms among K and answering with
\* texts T, while the scores stay within -S..S
NextOn(C, K, T, S) ==
    \E c \in C :
        \/ \E code \in K : Join(c, code)
        \/ StartGame(c)
        \/ \E text \in T : SubmitAnswer(c, text)
        \/ NextAnswer(c)
        \/ \E answerId \in AnswerIds : SubmitVote(c, answerId, S)
        \/ NextResult(c)
        \/ NewRound(c)
        \/ ResetGame(c)
        \/ Close(c, S)

\* one room and its players
Next == NextOn(Conns, {1}, Texts, MaxScore)
Spec == Init /\ [][Next]_vars

\* one more player, all sending the same text: membership and host migration
NextHost == NextOn(AllConns, {1}, {"", " blue "}, MaxScore - 1)
SpecHost == Init /\ [][NextHost]_vars

\* several rooms
NextRooms == NextOn(1..MaxRoomConns, Codes, Texts, MaxScore)
SpecRooms == Init /\ [][NextRooms]_vars

\* ------------------------------------------------------------- claims
\* a room that is in the registry before and after the step
Stays(code) == code \in DOMAIN rooms /\ code \in DOMAIN rooms'

Sum(f) == LET RECURSIVE S(_)
              S(D) == IF D = {} THEN 0
                      ELSE LET x == CHOOSE y \in D : TRUE IN f[x] + S(D \ {x})
          IN S(DOMAIN f)

\* the deck entry a vote points to
Target(room, voterId) == room.shuffled[find(room.shuffled, room.votes[voterId])]

\* C1 (as claimed): every change of a room's phase is one of the edges
\* lobby->answering by startGame, answering->reveal by submitAnswer,
\* reveal->voting by revealNext, voting->results by submitVote or a
\* disconnect, results->answering by newRound, any->lobby by resetGame; so a
\* startGame outside lobby or a newRound outside results changes no phase.
C1_PhaseEdges ==
    [][\A code \in Codes : Stays(code) =>
          LET a == rooms[code].phase
              b == rooms'[code].phase
          IN a # b =>
               \/ a = "lobby" /\ b = "answering" /\ \E c \in AllConns : StartGame(c)
               \/ a = "answering" /\ b = "reveal"
                    /\ \E c \in AllConns, text \in Texts : SubmitAnswer(c, text)
               \/ a = "reveal" /\ b = "voting" /\ \E c \in AllConns : NextAnswer(c)
               \/ a = "voting" /\ b = "results"
                    /\ \/ \E c \in AllConns, answerId \in AnswerIds : SubmitVote(c, answerId, MaxScore)
                       \/ \E c \in AllConns : Close(c, MaxScore)
               \/ a = "results" /\ b = "answering" /\ \E c \in AllConns : NewRound(c)
               \/ b = "lobby" /\ \E c \in AllConns : ResetGame(c)]_vars

\* C2: no vote of any room points to a deck entry owned by the voter, and a
\* submit_vote aimed at the sender's own entry leaves the votes as they were.
C2_NoSelfVote ==
    \A code \in DOMAIN rooms :
        LET room == rooms[code]
        IN /\ \A voterId \in DOMAIN room.votes :
                 \A i \in 1..Len(room.shuffled) :
                     room.shuffled[i].id = room.votes[voterId]
                        => room.shuffled[i].ownerId # voterId
           /\ \A i \in 1..Len(room.shuffled) :
                 LET e == room.shuffled[i]
                 IN e.ownerId \in Ids(room.clients)
                       => submit_vote(room, e.ownerId, e.id).votes = room.votes

\* C2 witness: voting is open, a participant who owns a deck entry has voted
\* (for another entry) and another owner has not voted yet.
C2_Witness ==
    \E code \in DOMAIN rooms :
        LET room == rooms[code]
        IN /\ room.phase = "voting"
           /\ \E v \in DOMAIN room.votes : v \in DOMAIN room.answers
           /\ \E i \in 1..Len(room.shuffled) :
                 /\ room.shuffled[i].ownerId \in Ids(room.clients)
                 /\ room.shuffled[i].ownerId \notin DOMAIN room.votes

\* C3 (as claimed): while a room is in results, the tallies sum to the number
\* of recorded votes.
C3_TalliesSumToVotes ==
    \A code \in DOMAIN rooms :
        rooms[code].phase = "results"
           => Sum(rooms[code].tallies) = Cardinality(DOMAIN rooms[code].votes)

\* votes of a room that point to an entry owned by x
Received(room, x) ==
    Cardinality({v \in DOMAIN room.votes : Target(room, v).ownerId = x})

\* what x's own vote earns: +1 for the AI entry, -1 otherwise, 0 without a vote
VoterDelta(room, x) ==
    IF x \notin DOMAIN room.votes THEN 0
    ELSE IF Target(room, x).ownerId = AI THEN 1 ELSE -1

OldScore(room, x) == IF x \in DOMAIN room.scores THEN room.scores[x] ELSE 0

\* C4: in a step that closes voting, every ledger entry x becomes its old
\* score (0 if absent) + the recorded votes whose target x owns + what x's own
\* vote earns; the ledger's total grows by the sum over the votes of
\* 1 + (1 if the target is AI, else -1).
C4_ScoringDeltas ==
    [][\A code \in Codes :
          (Stays(code) /\ rooms[code].phase = "voting" /\ rooms'[code].phase = "results") =>
             LET old == rooms[code]
                 new == rooms'[code]
             IN /\ \A x \in DOMAIN new.scores :
                      new.scores[x] = OldScore(old, x) + Received(new, x) + VoterDelta(new, x)
                /\ Sum(new.scores) - Sum(old.scores)
                      = Sum([v \in DOMAIN new.votes |->
                               1 + (IF Target(new, v).ownerId = AI THEN 1 ELSE -1)])]_vars

\* C4 witness: voting has closed with a vote for a human's entry and a vote
\* for the AI entry, and a voter whose own entry was voted for.
C4_Witness ==
    \E code \in DOMAIN rooms :
        LET room == rooms[code]
        IN /\ room.phase = "results"
           /\ \E v \in DOMAIN room.votes : Target(room, v).ownerId = AI
           /\ \E v \in DOMAIN room.votes :
                 Target(room, v).ownerId \in DOMAIN room.votes
           /\ \E x \in DOMAIN room.scores : room.scores[x] = 2

\* C5: in every room, neither reveal counter exceeds the size of the deck.
C5_CountersBounded ==
    \A code \in DOMAIN rooms :
        /\ rooms[code].revealCount <= Len(rooms[code].shuffled)
        /\ rooms[code].resultsRevealCount <= Len(rooms[code].shuffled)

\* C5 witness: both counters have reached the size of a non-empty deck.
C5_Witness ==
    \E code \in DOMAIN rooms :
        /\ Len(rooms[code].shuffled) > 0
        /\ rooms[code].revealCount = Len(rooms[code].shuffled)
        /\ rooms[code].resultsRevealCount = Len(rooms[code].shuffled)

\* a step that starts a round, or closes the answering phase of the room
StartsRoundOrClosesAnswering(code) ==
    \/ \E c \in AllConns : StartGame(c) \/ NewRound(c) \/ ResetGame(c)
    \/ rooms[code].phase = "answering" /\ rooms'[code].phase = "reveal"

\* C6: in a step of a room each reveal counter stays, grows by one, or
\* becomes 0 in a step that starts a round (startGame, newRound, resetGame) or
\* closes the answering phase.
C6_CountersStep ==
    [][\A code \in Codes : Stays(code) =>
          LET old == rooms[code]
              new == rooms'[code]
          IN /\ \/ new.revealCount = old.revealCount
                \/ new.revealCount = old.revealCount + 1
                \/ new.revealCount = 0 /\ StartsRoundOrClosesAnswering(code)
             /\ \/ new.resultsRevealCount = old.resultsRevealCount
                \/ new.resultsRevealCount = old.resultsRevealCount + 1
                \/ new.resultsRevealCount = 0 /\ StartsRoundOrClosesAnswering(code)]_vars

\* C6 witness: a later round is being answered (a scored round lies behind
\* it), so the counters that had grown are back at 0.
C6_Witness ==
    \E code \in DOMAIN rooms :
        LET room == rooms[code]
        IN /\ room.phase = "answering" /\ room.locked
           /\ \E x \in DOMAIN room.scores : room.scores[x] # 0
           /\ room.answers # <<>>
           /\ room.revealCount = 0 /\ room.resultsRevealCount = 0

\* C7: whenever a room's participants are not empty, hostId is the id of one.
C7_HostIsMember ==
    \A code \in DOMAIN rooms :
        rooms[code].clients # <<>> => rooms[code].hostId \in Ids(rooms[code].clients)

\* C7 witness: a participant has left a started game (its ledger entry
\* stays behind), two remain, and the host is the earlier of them.
C7_Witness ==
    \E code \in DOMAIN rooms :
        LET room == rooms[code]
        IN /\ Len(room.clients) >= 2
           /\ room.locked
           /\ \E x \in DOMAIN room.scores : x # AI /\ x \notin Ids(room.clients)
           /\ room.hostId = room.clients[1]

\* the fields a repeated submission must leave alone
Recorded(room) ==
    <<room.answers, room.shuffled, room.votes, room.tallies, room.scores, room.phase>>

\* C8: a submit_answer of a participant who has an entry in submissions, and a
\* submit_vote of one who has an entry in votes, leave submissions, deck,
\* votes, tallies, scores and phase as they were, whatever they carry.
C8_RepeatIsNoOp ==
    \A c \in AllConns : HasRoom(c) =>
        LET room == rooms[ws[c].room]
        IN /\ c \in DOMAIN room.answers =>
                \A text \in Texts, p \in Shuffles(Cardinality(DOMAIN room.answers) + 1) :
                    Recorded(submit_answer(room, c, text, p)) = Recorded(room)
           /\ c \in DOMAIN room.votes =>
                \A answerId \in AnswerIds :
                    Recorded(submit_vote(room, c, answerId)) = Recorded(room)

\* C8 witness: voting is open and a participant holds both a submission and
\* a vote, while another entry it could name exists.
C8_Witness ==
    \E c \in AllConns :
        /\ ws[c].open /\ HasRoom(c)
        /\ LET room == rooms[ws[c].room]
           IN /\ room.phase = "voting"
              /\ c \in DOMAIN room.answers /\ c \in DOMAIN room.votes
              /\ \E i \in 1..Len(room.shuffled) :
                    room.shuffled[i].ownerId # c /\ room.shuffled[i].id # room.votes[c]

\* C9: a rejected or ignored command leaves the room as it was: a host-only
\* command of a non-host; a submit_answer outside a locked answering phase or
\* with a blank text; a submit_vote outside voting, for an unknown answerId,
\* or for the sender's own entry.
C9_RejectedIsNoOp ==
    \A c \in AllConns : HasRoom(c) =>
        LET room == rooms[ws[c].room]
            ids == {room.shuffled[i].id : i \in 1..Len(room.shuffled)}
            own == {room.shuffled[i].id : i \in {j \in 1..Len(room.shuffled) :
                                                    room.shuffled[j].ownerId = c}}
            n == Cardinality(DOMAIN room.answers \cup {c}) + 1
        IN /\ c # room.hostId =>
                /\ start_game(room, c) = room
                /\ next_answer(room, c) = room
                /\ next_result(room, c) = room
                /\ new_round(room, c) = room
                /\ reset_game(room, c) = room
           /\ \A text \in Texts, p \in Shuffles(n) :
                (~room.locked \/ room.phase # "answering" \/ Trim(text) = "")
                    => submit_answer(room, c, text, p) = room
           /\ \A answerId \in AnswerIds :
                (room.phase # "voting" \/ answerId \notin ids \/ answerId \in own)
                    => submit_vote(room, c, answerId) = room

\* C9 witness: voting is open and a participant who is not the host, owns a
\* deck entry and has not voted can send each of the commands above.
C9_Witness ==
    \E c \in AllConns :
        /\ ws[c].open /\ HasRoom(c)
        /\ LET room == rooms[ws[c].room]
           IN /\ room.phase = "voting"
              /\ c # room.hostId
              /\ c \notin DOMAIN room.votes
              /\ \E i \in 1..Len(room.shuffled) : room.shuffled[i].ownerId = c

\* C10 (as claimed): no join succeeds while a room's phase is answering,
\* reveal, voting or results: the participants of a room grow only while its
\* phase is lobby.
C10_JoinOnlyInLobby ==
    [][\A code \in Codes : Stays(code) =>
          (Len(rooms'[code].clients) > Len(rooms[code].clients)
              => rooms[code].phase = "lobby")]_vars

\* C11: a join addressed to a locked room adds no participant and leaves the
\* room (hostId, scores, round data) and the sender's room as they were; the
\* participants of a room never grow in a step taken while it is locked.
C11_LockedJoinRejected ==
    [][/\ \A code \in Codes : (Stays(code) /\ rooms[code].locked) =>
             Len(rooms'[code].clients) <= Len(rooms[code].clients)
       /\ \A c \in AllConns, code \in Codes :
             (code \in DOMAIN rooms /\ rooms[code].locked /\ Join(c, code))
                => rooms' = rooms /\ ws' = ws]_vars

\* C11 witness: a game is under way in a locked room with two participants
\* and an open connection that is not in it.
C11_Witness ==
    \E code \in DOMAIN rooms, c \in Conns :
        /\ rooms[code].locked
        /\ rooms[code].phase # "lobby"
        /\ ws[c].open /\ c \notin Ids(rooms[code].clients)

\* the room before a step with the participants, host, submissions and votes
\* it has after the step
WithVotersOf(old, new) ==
    [old EXCEPT !.clients = new.clients, !.hostId = new.hostId,
                !.answers = new.answers, !.votes = new.votes]

\* C12: a room in voting has fewer votes than participants; a step that takes
\* a room from voting to results (the last vote, or a disconnect that leaves
\* every remaining participant with a vote) recomputes the tallies from the
\* votes, applies the scoring and sets resultsRevealCount to 0.
C12_VotingNeverRestsComplete ==
    /\ [](\A code \in DOMAIN rooms :
             rooms[code].phase = "voting" =>
                Cardinality(DOMAIN rooms[code].votes) < Len(rooms[code].clients))
    /\ [][\A code \in Codes :
             (Stays(code) /\ rooms[code].phase = "voting" /\ rooms'[code].phase = "results") =>
                LET new == rooms'[code]
                IN /\ Cardinality(DOMAIN new.votes) = Len(new.clients)
                   /\ new.tallies = computeTallies(new).tallies
                   /\ new.resultsRevealCount = 0
                   /\ new = broadcastRoom(closeVoting(WithVotersOf(rooms[code], new)))]_vars

\* C12 witness: voting has closed in a room that an owner of a deck entry has
\* left: the one participant who remains holds the one vote, which is the
\* whole tally.
C12_Witness ==
    \E code \in DOMAIN rooms :
        LET room == rooms[code]
        IN /\ room.phase = "results"
           /\ Len(room.shuffled) = 3
           /\ Len(room.clients) = 1
           /\ Cardinality(DOMAIN room.votes) = 1
           /\ Sum(room.tallies) = 1

\* the close event of participant c in a room that stays
Disconnects(c) ==
    /\ HasRoom(c)
    /\ Close(c, MaxScore)
    /\ Stays(ws[c].room)

\* C13 (as claimed): a disconnect removes the participant and leaves the
\* participant's own ledger entry present with the same value, in every phase.
C13_ScoreEntryUntouched ==
    [][\A c \in Conns :
          Disconnects(c) =>
             LET old == rooms[ws[c].room]
                 new == rooms'[ws[c].room]
             IN /\ c \notin Ids(new.clients)
                /\ c \in DOMAIN old.scores
                /\ c \in DOMAIN new.scores
                /\ new.scores[c] = old.scores[c]]_vars

\* C13 (amended): a disconnect removes the participant and leaves the
\* participant's own ledger entry present; its value is the same unless the
\* disconnect completes voting, and then it grows by the number of recorded
\* votes for the deck entry the participant owns.
C13_ScoreEntryGrowsOnlyByVotes ==
    [][\A c \in Conns :
          Disconnects(c) =>
             LET old == rooms[ws[c].room]
                 new == rooms'[ws[c].room]
                 completes == old.phase = "voting" /\ new.phase = "results"
             IN /\ c \notin Ids(new.clients)
                /\ c \in DOMAIN old.scores
                /\ c \in DOMAIN new.scores
                /\ new.scores[c] = old.scores[c] + (IF completes THEN Received(new, c) ELSE 0)
                /\ completes <=> (old.phase = "voting" /\
                                  Cardinality(DOMAIN new.votes) = Len(new.clients))]_vars

\* C13 witness: voting has closed without the vote of an owner of a deck
\* entry who has disconnected, and a recorded vote for that entry was scored.
C13_Witness ==
    \E code \in DOMAIN rooms, c \in Conns :
        LET room == rooms[code]
        IN /\ room.phase = "results"
           /\ ~ws[c].open
           /\ c \notin Ids(room.clients)
           /\ Sum(room.tallies) = Cardinality(DOMAIN room.votes)
           /\ Received(room, c) >= 1
           /\ c \in DOMAIN room.scores /\ room.scores[c] >= 1

\* the positions of the deck whose entry is owned by o
EntriesOf(shuffled, o) == {k \in 1..Len(shuffled) : shuffled[k].ownerId = o}

\* C14: a non-empty deck holds exactly one entry owned by AI and at most one
\* entry per other owner; the step that takes a room from answering to reveal
\* leaves a deck whose owners are the submitters of the round and AI, one
\* entry each, and revealCount 0; no other step fills an empty deck.
C14_DeckOwners ==
    /\ [](\A code \in DOMAIN rooms :
             LET shuffled == rooms[code].shuffled
             IN shuffled # <<>> =>
                   /\ Cardinality(EntriesOf(shuffled, AI)) = 1
                   /\ \A o \in Conns : Cardinality(EntriesOf(shuffled, o)) <= 1)
    /\ [][\A code \in Codes :
             (Stays(code) /\ (\/ rooms[code].phase = "answering" /\ rooms'[code].phase = "reveal"
                              \/ rooms[code].shuffled = <<>> /\ rooms'[code].shuffled # <<>>)) =>
                LET new == rooms'[code]
                IN /\ rooms[code].phase = "answering"
                   /\ rooms[code].shuffled = <<>>
                   /\ new.phase = "reveal"
                   /\ new.revealCount = 0
                   /\ {new.shuffled[k].ownerId : k \in 1..Len(new.shuffled)}
                         = DOMAIN new.answers \cup {AI}
                   /\ Len(new.shuffled) = Cardinality(DOMAIN new.answers) + 1]_vars

\* C14 witness: the answering phase has just closed on two submissions: the
\* deck has three entries, none is shown yet.
C14_Witness ==
    \E code \in DOMAIN rooms :
        LET room == rooms[code]
        IN /\ room.phase = "reveal"
           /\ room.revealCount = 0
           /\ Cardinality(DOMAIN room.answers) = 2
           /\ Len(room.shuffled) = 3

\* C15: in reveal, the host's next_answer raises revealCount by exactly one
\* and the room is in voting after it exactly when revealCount has reached the
\* deck's length, with no votes and no tallies; every step from reveal to
\* voting is such a step. So reveal implies revealCount < |deck|, and voting
\* and results imply revealCount = |deck|.
C15_RevealThenVoting ==
    /\ [](\A code \in DOMAIN rooms :
             LET room == rooms[code]
             IN /\ room.phase = "reveal" => room.revealCount < Len(room.shuffled)
                /\ room.phase \in {"voting", "results"}
                      => room.revealCount = Len(room.shuffled))
    /\ [][\A c \in Conns :
             (HasRoom(c) /\ rooms[ws[c].room].phase = "reveal"
                         /\ rooms[ws[c].room].hostId = c /\ NextAnswer(c)) =>
                LET old == rooms[ws[c].room]
                    new == rooms'[ws[c].room]
                IN /\ new.revealCount = old.revealCount + 1
                   /\ new.shuffled = old.shuffled
                   /\ new.phase = IF new.revealCount = Len(new.shuffled)
                                  THEN "voting" ELSE "reveal"]_vars
    /\ [][\A code \in Codes :
             (Stays(code) /\ rooms[code].phase = "reveal" /\ rooms'[code].phase = "voting") =>
                /\ rooms'[code].revealCount = rooms[code].revealCount + 1
                /\ rooms'[code].revealCount = Len(rooms'[code].shuffled)
                /\ rooms'[code].votes = <<>>
                /\ rooms'[code].tallies = <<>>]_vars

\* C15 witness: the host has shown the last of three entries and voting has
\* started with no votes and no tallies.
C15_Witness ==
    \E code \in DOMAIN rooms :
        LET room == rooms[code]
        IN /\ room.phase = "voting"
           /\ Len(room.shuffled) = 3
           /\ room.revealCount = 3
           /\ room.votes = <<>> /\ room.tallies = <<>>

\* C16: whatever the phase, after the host's reset_game the room is in lobby
\* and unlocked, submissions, deck, votes and tallies are empty, both counters
\* are 0, and the ledger's keys are the participants and AI, each with score 0.
C16_ResetGame ==
    [][\A c \in Conns :
          (HasRoom(c) /\ rooms[ws[c].room].hostId = c /\ ResetGame(c)) =>
             LET room == rooms[ws[c].room]
                 new == rooms'[ws[c].room]
             IN /\ new.phase = "lobby"
                /\ ~new.locked
                /\ new.answers = <<>> /\ new.shuffled = <<>>
                /\ new.votes = <<>> /\ new.tallies = <<>>
                /\ new.revealCount = 0 /\ new.resultsRevealCount = 0
                /\ DOMAIN new.scores = Ids(new.clients) \cup {AI}
                /\ \A o \in DOMAIN new.scores : new.scores[o] = 0
                /\ new.clients = room.clients /\ new.hostId = room.hostId]_vars

\* C16 witness: the host can reset a locked room in results whose ledger has
\* a non-zero score and an entry of a participant who has left.
C16_Witness ==
    \E code \in DOMAIN rooms :
        LET room == rooms[code]
        IN /\ room.phase = "results" /\ room.locked
           /\ room.hostId \in Ids(room.clients) /\ ws[room.hostId].open
           /\ room.resultsRevealCount > 0
           /\ \E o \in DOMAIN room.scores : room.scores[o] # 0
           /\ \E o \in DOMAIN room.scores : o \notin Ids(room.clients) \cup {AI}

\* C17: the host's new_round leaves locked, scores, hostId and participants
\* as they were, sets phase to answering, empties submissions, deck, votes and
\* tallies, and sets both counters to 0.
C17_NewRound ==
    [][\A c \in Conns :
          (HasRoom(c) /\ rooms[ws[c].room].hostId = c /\ NewRound(c)) =>
             LET room == rooms[ws[c].room]
                 new == rooms'[ws[c].room]
             IN /\ new.locked = room.locked
                /\ new.scores = room.scores
                /\ new.hostId = room.hostId
                /\ new.clients = room.clients
                /\ new.phase = "answering"
                /\ new.answers = <<>> /\ new.shuffled = <<>>
                /\ new.votes = <<>> /\ new.tallies = <<>>
                /\ new.revealCount = 0 /\ new.resultsRevealCount = 0]_vars

\* C17 witness: a round has started in a locked room whose ledger carries
\* non-zero scores of an earlier round.
C17_Witness ==
    \E code \in DOMAIN rooms :
        LET room == rooms[code]
        IN /\ room.phase = "answering" /\ room.locked
           /\ room.answers = <<>> /\ room.shuffled = <<>>
           /\ room.votes = <<>> /\ room.tallies = <<>>
           /\ \E o \in Ids(room.clients) : room.scores[o] # 0

\* C18: the registry holds a room exactly while it has a participant: every
\* room in the registry has a non-empty participants set, and a room is gone
\* once the connection of each of its participants has closed, so a room in
\* the registry has a participant whose connection is open.
C18_RoomWhileParticipants ==
    \A code \in DOMAIN rooms :
        /\ rooms[code].clients # <<>>
        /\ \E c \in Ids(rooms[code].clients) : ws[c].open

\* C19: the participants of two distinct rooms of the registry are disjoint.
C19_OneRoomPerParticipant ==
    \A a, b \in DOMAIN rooms :
        a # b => Ids(rooms[a].clients) \cap Ids(rooms[b].clients) = {}

\* C20: a step changes a room's hostId only if the host it had is not among
\* the participants after the step, and then the new host is the first of the
\* remaining participants in join order; a host who is still a participant
\* after a step is still the host. When the last participant closes, the
\* handler unsets hostId before the room is removed.
C20_HostMigration ==
    [][\A code \in Codes :
          /\ (code \in DOMAIN rooms /\ code \notin DOMAIN rooms') =>
                \E c \in AllConns : /\ rooms[code].clients = <<c>>
                                    /\ leave(rooms[code], c).hostId = NULL
          /\ Stays(code) =>
             LET old == rooms[code]
                 new == rooms'[code]
             IN /\ new.hostId # old.hostId =>
                      /\ old.hostId \notin Ids(new.clients)
                      /\ new.hostId = new.clients[1]
                      /\ new.clients = RemoveClient(old.clients, old.hostId)
                /\ old.hostId \in Ids(new.clients) => new.hostId = old.hostId]_vars

\* C20 witness: a participant with a ledger entry has disconnected from a
\* room in which two participants remain, and the first of them in join
\* order is the host.
C20_Witness ==
    \E code \in DOMAIN rooms :
        LET room == rooms[code]
        IN /\ Len(room.clients) = 2
           /\ room.hostId = room.clients[1]
           /\ \E c \in DOMAIN room.scores \ {AI} :
                 c \notin Ids(room.clients) /\ ~ws[c].open

\* what a snapshot may show of the deck entry at position i
ShowsResult(room, i) == room.phase = "results" /\ i <= room.resultsRevealCount
ShowsId(room) == room.phase \in {"voting", "results"}
ShowsText(room, i) == ShowsId(room) \/ (room.phase = "reveal" /\ i <= room.revealCount)

\* the room with everything a snapshot must not show blanked: owners and
\* tallies of entries whose result is not shown, ids outside voting and
\* results, texts of entries not yet shown
Scrub(room) ==
    LET shownIds == {room.shuffled[i].id :
                        i \in {k \in 1..Len(room.shuffled) : ShowsResult(room, k)}}
    IN [room EXCEPT
          !.shuffled = [i \in 1..Len(room.shuffled) |->
              [id |-> IF ShowsId(room) THEN room.shuffled[i].id ELSE NULL,
               ownerId |-> IF ShowsResult(room, i) THEN room.shuffled[i].ownerId ELSE AI,
               answer |-> IF ShowsText(room, i) THEN room.shuffled[i].answer ELSE ""]],
          !.tallies = [a \in DOMAIN room.tallies \cap shownIds |-> room.tallies[a]]]

\* C21: the snapshot sent to a participant shows author, AI flag and vote
\* count of a deck entry only in results and only for positions up to
\* resultsRevealCount, shows entry ids only in voting and results, and in
\* reveal shows exactly the texts of the first revealCount entries: the
\* snapshot is the same when everything else of the deck is blanked.
C21_SnapshotHidesDeck ==
    \A code \in DOMAIN rooms :
        LET room == rooms[code]
        IN \A c \in Ids(room.clients) :
              LET s == snapshot(room, c)
                  v == s.shared
              IN /\ s = snapshot(Scrub(room), c)
                 /\ v.revealedResults # <<>> => room.phase = "results"
                 /\ Len(v.revealedResults) <= room.resultsRevealCount
                 /\ \A i \in 1..Len(v.revealedResults) :
                       /\ v.revealedResults[i].id = room.shuffled[i].id
                       /\ v.revealedResults[i].isAI = (room.shuffled[i].ownerId = AI)
                 /\ (v.voteOptions # <<>> \/ s.yourVote # NULL) => ShowsId(room)
                 /\ v.revealedAnswers =
                       IF room.phase = "reveal"
                       THEN [i \in 1..room.revealCount |-> [text |-> room.shuffled[i].answer]]
                       ELSE <<>>

\* C21 witness: in results the host has shown the first result and the deck
\* still hides an entry of a human owner that received a vote.
C21_Witness ==
    \E code \in DOMAIN rooms :
        LET room == rooms[code]
        IN /\ room.phase = "results"
           /\ room.resultsRevealCount = 1
           /\ \E i \in 2..Len(room.shuffled) :
                 /\ room.shuffled[i].ownerId # AI
                 /\ room.shuffled[i].id \in DOMAIN room.tallies

\* C22: in every room the ledger has an entry for AI and for every
\* participant.
C22_ScoresHasEntries ==
    \A code \in DOMAIN rooms :
        Ids(rooms[code].clients) \cup {AI} \subseteq DOMAIN rooms[code].scores

\* C22 witness: a round has been scored in a room with two participants and
\* the ledger holds their entries and AI's.
C22_Witness ==
    \E code \in DOMAIN rooms :
        LET room == rooms[code]
        IN /\ Len(room.clients) = 2
           /\ room.phase = "results"
           /\ DOMAIN room.scores = Ids(room.clients) \cup {AI}
           /\ \E o \in DOMAIN room.scores : room.scores[o] # 0

\* the ids of the entries of a deck
DeckIds(shuffled) == {shuffled[k].id : k \in 1..Len(shuffled)}

\* C23: every value stored in votes and every key of tallies is the id of an
\* entry of the room's current deck.
C23_VotesAndTalliesInDeck ==
    \A code \in DOMAIN rooms :
        LET room == rooms[code]
        IN /\ Range(room.votes) \subseteq DeckIds(room.shuffled)
           /\ DOMAIN room.tallies \subseteq DeckIds(room.shuffled)

\* C23 witness: two votes for different entries have been tallied.
C23_Witness ==
    \E code \in DOMAIN rooms :
        LET room == rooms[code]
        IN /\ room.phase = "results"
           /\ Cardinality(Range(room.votes)) = 2
           /\ Cardinality(DOMAIN room.tallies) = 2

\* C24: a locked room in answering has fewer submissions than participants.
C24_AnsweringNeverRestsComplete ==
    \A code \in DOMAIN rooms :
        LET room == rooms[code]
        IN (room.phase = "answering" /\ room.locked) =>
              Cardinality(DOMAIN room.answers) < Len(room.clients)

\* C25: every key of submissions and every key of votes is a participant of
\* the room whose connection is open, so neither map has more keys than the
\* room has participants.
C25_KeysAreConnected ==
    \A code \in DOMAIN rooms :
        LET room == rooms[code]
        IN /\ \A k \in DOMAIN room.answers \cup DOMAIN room.votes :
                 k \in Ids(room.clients) /\ ws[k].open
           /\ Cardinality(DOMAIN room.answers) <= Len(room.clients)
           /\ Cardinality(DOMAIN room.votes) <= Len(room.clients)

\* C26: the sum of all values of a room's ledger, departed participants
\* included, is twice the score of AI, and the score of AI is not negative.
C26_LedgerTotal ==
    \A code \in DOMAIN rooms :
        LET scores == rooms[code].scores
        IN /\ AI \in DOMAIN scores
           /\ scores[AI] >= 0
           /\ Sum(scores) = 2 * scores[AI]

\* C26 witness: the ledger holds a positive score of AI, a negative score,
\* and the entry of a participant who has left.
C26_Witness ==
    \E code \in DOMAIN rooms :
        LET room == rooms[code]
        IN /\ AI \in DOMAIN room.scores /\ room.scores[AI] > 0
           /\ \E o \in DOMAIN room.scores : room.scores[o] < 0
           /\ \E o \in DOMAIN room.scores : o \notin Ids(room.clients) \cup {AI}

\* the host of the room resets the game in this step
ResetsGame(code) ==
    \E c \in AllConns : ws[c].room = code /\ rooms[code].hostId = c /\ ResetGame(c)

\* C27: an entry of the ledger changes its value or leaves the ledger only in
\* a step from voting to results or in the host's reset_game; the step from
\* voting to results applies each recorded vote once.
C27_ScoredOncePerRound ==
    [][\A code \in Codes :
          Stays(code) =>
             LET old == rooms[code]
                 new == rooms'[code]
                 closes == old.phase = "voting" /\ new.phase = "results"
             IN /\ (\E o \in DOMAIN old.scores :
                       o \notin DOMAIN new.scores \/ new.scores[o] # old.scores[o])
                      => closes \/ ResetsGame(code)
                /\ closes =>
                      \A o \in DOMAIN new.scores :
                         new.scores[o] = OldScore(old, o) + Received(new, o) + VoterDelta(new, o)]_vars

\* C27 witness: after the scoring of a round the host has shown every result
\* and the ledger still holds the scores of that one scoring.
C27_Witness ==
    \E code \in DOMAIN rooms :
        LET room == rooms[code]
        IN /\ room.phase = "results"
           /\ room.resultsRevealCount = Len(room.shuffled)
           /\ Cardinality(DOMAIN room.votes) = 2
           /\ \A o \in DOMAIN room.scores :
                 room.scores[o] = Received(room, o) + VoterDelta(room, o)
           /\ \E o \in DOMAIN room.scores : room.scores[o] # 0

=============================================================================
